---- MODULE Spec2Model ----
(***************************************************************************)
(* Model of the Simple NETCONF Client (package simple_netconf_client):     *)
(*   - ConfigManager: the JSON configuration dotfile, load/merge/save      *)
(*   - NetconfConnection: the context-managed NETCONF session wrapper and  *)
(*     the GUI operations that use it                                      *)
(*   - ZeroconfListener: the discovered-device mapping and the device list *)
(*     the device picker reads                                             *)
(***************************************************************************)
EXTENDS Integers, Sequences, FiniteSets, TLC

(***************************************************************************)
(* Python values held in the configuration record and their JSON text      *)
(* forms.  A Python value is <<"str", s>>, <<"int", n>>, <<"bool", b>> or   *)
(* <<"None">>; a JSON value is <<"string", s>>, <<"number", n>>, <<"true">>,*)
(* <<"false">> or <<"null">>.                                              *)
(***************************************************************************)
PyStr(s) == <<"str", s>>
PyInt(n) == <<"int", n>>
PyBool(b) == <<"bool", b>>
PyNone == <<"None">>

\* Python truth value of a configuration value (if self.cfg[...]:)
Truthy(v) ==
    CASE v[1] = "str" -> v[2] # ""
      [] v[1] = "int" -> v[2] # 0
      [] v[1] = "bool" -> v[2]
      [] OTHER -> FALSE

\* json.dump of one value
json_dump_value(v) ==
    CASE v[1] = "str" -> <<"string", v[2]>>
      [] v[1] = "int" -> <<"number", v[2]>>
      [] v[1] = "bool" -> IF v[2] THEN <<"true">> ELSE <<"false">>
      [] OTHER -> <<"null">>

\* json.load of one value
json_load_value(j) ==
    CASE j[1] = "string" -> <<"str", j[2]>>
      [] j[1] = "number" -> <<"int", j[2]>>
      [] j[1] = "true" -> <<"bool", TRUE>>
      [] j[1] = "false" -> <<"bool", FALSE>>
      [] OTHER -> <<"None">>

\* json.dump(self.cfg, file): a JSON object with one member per key
json_dump(c) == [k \in DOMAIN c |-> json_dump_value(c[k])]

\* json.load(file)
json_load(o) == [k \in DOMAIN o |-> json_load_value(o[k])]

\* the empty dict / the empty JSON object
EmptyDict == [k \in {} |-> <<"None">>]

(***************************************************************************)
(* ConfigManager                                                           *)
(***************************************************************************)
\* self.default_cfg
default_cfg ==
    ("addr" :> PyStr("")) @@
    ("port" :> PyInt(830)) @@
    ("user" :> PyStr("admin")) @@
    ("pass" :> PyStr("")) @@
    ("ssh-agent" :> PyBool(TRUE)) @@
    ("theme" :> PyStr("System")) @@
    ("zoom" :> PyStr("100%")) @@
    ("server_iface" :> PyStr("virbr0")) @@
    ("server_enabled" :> PyBool(FALSE)) @@
    ("server_path" :> PyStr("")) @@
    ("server_port" :> PyInt(8080))

DefaultKeys == DOMAIN default_cfg

\* keys the GUI stores in the record beyond the default template
ExtraKeys == {"syntax_style", "max_highlighting_size"}

AllKeys == DefaultKeys \cup ExtraKeys

\* configuration keys the GUI reads with self.cfg[key] (no fallback)
GuiKeys == DefaultKeys \cup {"max_highlighting_size"}

\* a mutation of _merge_defaults: the default overwrites the loaded value
merge_defaults_overwrite(c) ==
    [k \in (DOMAIN c) \cup DefaultKeys |->
        IF k \in DefaultKeys THEN default_cfg[k] ELSE c[k]]

\* ConfigManager._merge_defaults
merge_defaults(c) ==
    [k \in (DOMAIN c) \cup DefaultKeys |->
        IF k \in DOMAIN c THEN c[k] ELSE default_cfg[k]]

\* ConfigManager.load: the record after load, from the record before and the file
load(c, exists, data) ==
    merge_defaults(IF exists THEN json_load(data) ELSE c)

\* a mutation of save: only the keys of the default template are written
save_defaults_only(c) == [k \in (DOMAIN c) \cap DefaultKeys |-> json_dump_value(c[k])]

\* ConfigManager.save: the file content written
save(c) == json_dump(c)


(***************************************************************************)
(* State                                                                   *)
(***************************************************************************)
VARIABLES
    \* configuration
    app,            \* "off", "running", "crashed": the GUI application process
    mgr,            \* TRUE when a ConfigManager has been constructed
    cfg,            \* ConfigManager.cfg (the record the GUI shares)
    fileExists,     \* os.path.exists(self.filepath)
    fileData,       \* the JSON object held by the config file
    crash,          \* the exception that ended SimpleNetconfClient.__init__, or "none"
    server,         \* self.server: "unset" (never assigned), "serving" or "closed"
    server_path,    \* <<"unset">> (attribute never assigned) or <<"set", directory>>
    last,           \* the configuration operation performed last
    loadSrc,        \* the file as it was when load last read it
    savedCfg,       \* the record as it was when save last wrote it
    nchanges,       \* number of settings changes made so far
    listening,      \* <<host, port>> of every bound server socket not yet closed
    docroot,        \* the directory the request handler of self.server serves
    ev,             \* the last settings event: handler, inputs, state before it
    \* NETCONF operations (UI thread)
    pc,             \* position of the UI thread inside a device operation
    curOp,          \* the operation being run
    viaSend,        \* TRUE when it runs as the pending callback of Send
    m,              \* NetconfConnection.manager: 0 for None, else a session id
    closeCalls,     \* sessions obtained so far -> number of close_session calls
    attempts,       \* manager.connect calls made by the current/last operation
    rpcCalls,       \* RPC calls made on the session by the current/last operation
    status,         \* the status bar: <<is_error, message ...>>
    raised,         \* exception in flight inside the handler, or "none"
    propagated,     \* exception that left the last UI event handler, or "none"
    rpc_cb,         \* the pending RPC callback, "None" when there is none
    textbox,        \* content of the text box
    payload,        \* the document handed to the RPC call of the operation
    closes,         \* close_session calls made by the current/last operation
    excLog,         \* library exceptions raised in the current/last operation
    target,         \* self.target: the datastore execute_put_config writes to
    loadTarget,     \* the datastore chosen when the config file was last loaded
    sendText,       \* content of the text box when Send was last pressed
    sent,           \* the RPC call made: <<method, target, wrapper, document>>
    \* mDNS-SD discovery
    devices,        \* ZeroconfListener.devices: sequence of <<name, tuple>> (dict order)
    appDevices,     \* SimpleNetconfClient.devices: the list the picker shows
    uiPc,           \* position of the UI thread in show_device_list
    dialogDevices,  \* ScanResultsDialog.devices
    cbPc,           \* position of the discovery callback thread
    cbExc,          \* exception that ended the last discovery callback, or "none"
    ncallbacks,     \* discovery callbacks delivered so far
    resolved,       \* names added with service info and not removed since
    expected        \* <<name, hostname, addresses, port>> of the last add of each
                    \* name that carried an address, not removed since

cfgVars == <<app, mgr, cfg, fileExists, fileData, crash, server, server_path,
             last, loadSrc, savedCfg, nchanges, listening, docroot, ev>>
connVars == <<pc, curOp, viaSend, m, closeCalls, attempts, rpcCalls, status,
              raised, propagated, rpc_cb, textbox, payload, closes, excLog,
              target, loadTarget, sendText, sent>>
discVars == <<devices, appDevices, uiPc, dialogDevices, cbPc, cbExc, ncallbacks,
              resolved, expected>>
vars == <<cfgVars, connVars, discVars>>

(***************************************************************************)
(* Bounds                                                                  *)
(***************************************************************************)
\* a config file holds at most, or lacks at most, this many keys
MaxDiff == 2
\* settings changes (theme, zoom, syntax style) explored after a start
MaxChanges == 1
\* NETCONF sessions obtained in one run
MaxSessions == 2
\* discovery callbacks delivered in one run
MaxCallbacks == 3

(***************************************************************************)
(* Config files on disk and the values the GUI can store                   *)
(***************************************************************************)
\* a value found in a config file for each key (none equals the default)
FileValue(k) ==
    CASE k = "addr" -> <<"string", "192.168.2.1">>
      [] k = "port" -> <<"string", "830">>
      [] k = "user" -> <<"string", "root">>
      [] k = "pass" -> <<"string", "secret">>
      [] k = "ssh-agent" -> <<"number", 0>>
      [] k = "theme" -> <<"string", "Dark">>
      [] k = "zoom" -> <<"string", "110%">>
      [] k = "server_iface" -> <<"null">>
      [] k = "server_enabled" -> <<"true">>
      [] k = "server_path" -> <<"string", "/srv/fw">>
      [] k = "server_port" -> <<"number", 8000>>
      [] k = "syntax_style" -> <<"string", "default">>
      [] OTHER -> <<"number", 100000>>

\* the key sets of the config files considered: those that hold at most
\* MaxDiff keys and those that lack at most MaxDiff keys
FileKeySets ==
    { S \in SUBSET AllKeys :
        Cardinality(S) <= MaxDiff \/ Cardinality(AllKeys \ S) <= MaxDiff }

\* the config files considered: one JSON object for each of these key sets
ConfigFiles == { [k \in S |-> FileValue(k)] : S \in FileKeySets }

Themes == {"System", "Light", "Dark"}
Zooms == {"90%", "100%"}
Styles == {"monokai", "default"}


(***************************************************************************)
(* ConfigManager operations and the GUI's use of the record                *)
(***************************************************************************)
\* self.cfg[k] = v
SetKey(c, k, v) == [x \in (DOMAIN c) \cup {k} |-> IF x = k THEN v ELSE c[x]]

\* self.cfg.get(k, dflt)
GetKey(c, k, dflt) == IF k \in DOMAIN c THEN c[k] ELSE dflt

\* what load leaves in `last`: a load that directly follows a save is marked
AfterLoad == IF last = "save" THEN "save_load" ELSE "load"

FileSnapshot == [exists |-> fileExists, data |-> fileData]

\* no settings handler has run yet
NoEvent == [op |-> "none"]

cfgGhostInit ==
    /\ last = "none"
    /\ loadSrc = [exists |-> FALSE, data |-> EmptyDict]
    /\ savedCfg = default_cfg
    /\ nchanges = 0

cfgInit ==
    /\ app = "off"
    /\ mgr = FALSE
    /\ cfg = default_cfg
    /\ \/ fileExists = FALSE /\ fileData = EmptyDict
       \/ fileExists = TRUE /\ fileData \in ConfigFiles
    /\ crash = "none"
    /\ server = "unset"
    /\ server_path = <<"unset">>
    /\ listening = <<>>
    /\ docroot = ""
    /\ ev = NoEvent
    /\ cfgGhostInit

\* ConfigManager.__init__: a manager constructed outside the GUI
ConfigManager_init ==
    /\ app = "off"
    /\ mgr' = TRUE
    /\ cfg' = load(default_cfg, fileExists, fileData)
    /\ last' = AfterLoad
    /\ loadSrc' = FileSnapshot
    /\ UNCHANGED <<app, fileExists, fileData, crash, server, server_path, savedCfg, nchanges,
                   listening, docroot, ev>>

\* ConfigManager.load called again on the same manager
ConfigManager_load ==
    /\ app = "off"
    /\ mgr
    /\ cfg' = load(cfg, fileExists, fileData)
    /\ last' = AfterLoad
    /\ loadSrc' = FileSnapshot
    /\ UNCHANGED <<app, mgr, fileExists, fileData, crash, server, server_path, savedCfg, nchanges,
                   listening, docroot, ev>>

\* ConfigManager.save called on a manager outside the GUI
ConfigManager_save ==
    /\ app = "off"
    /\ mgr
    /\ fileExists' = TRUE
    /\ fileData' = save(cfg)
    /\ savedCfg' = cfg
    /\ last' = "save"
    /\ UNCHANGED <<app, mgr, cfg, crash, server, server_path, loadSrc, nchanges,
                   listening, docroot, ev>>

\* SimpleNetconfClient.__init__, first statements: self.cfg_mgr = ConfigManager()
App_init_ConfigManager ==
    /\ app = "off"
    /\ app' = "starting"
    /\ mgr' = TRUE
    /\ cfg' = load(default_cfg, fileExists, fileData)
    /\ last' = AfterLoad
    /\ loadSrc' = FileSnapshot
    /\ crash' = "none"
    /\ server' = "unset"
    /\ server_path' = <<"unset">>
    /\ nchanges' = 0
    /\ listening' = <<>>
    /\ docroot' = ""
    /\ ev' = NoEvent
    /\ UNCHANGED <<fileExists, fileData, savedCfg>>

\* the exception start_file_server raises during __init__ for this record,
\* "none" when it returns; bindFails is the outcome of TCPServer
StartFileServerError(c, sp, bindFails) ==
    IF ~Truthy(c["server_enabled"]) THEN "none"
    ELSE IF sp = <<"unset">> THEN "AttributeError"
    ELSE IF bindFails THEN "OSError"
    ELSE "none"

\* SimpleNetconfClient.__init__, the rest: widgets read the record,
\* change_theme_mode_event and change_scaling_event store and save it,
\* start_file_server, then load_syntax_style -> highlight_syntax
App_init_Gui ==
    /\ app = "starting"
    /\ \E bindFails \in BOOLEAN :
         LET sp == IF Truthy(cfg["server_path"])
                   THEN <<"set", cfg["server_path"][2]>> ELSE <<"unset">>
             c1 == SetKey(cfg, "theme", cfg["theme"])
             c2 == SetKey(c1, "zoom", cfg["zoom"])
             srvErr == StartFileServerError(c2, sp, bindFails)
             name == GetKey(c2, "syntax_style", PyStr("monokai"))
             err == IF srvErr # "none" THEN srvErr
                    ELSE IF "max_highlighting_size" \notin DOMAIN c2 THEN "KeyError"
                    ELSE "none"
         IN /\ server_path' = sp
            /\ fileExists' = TRUE
            /\ fileData' = save(c2)
            /\ savedCfg' = c2
            /\ server' = IF Truthy(c2["server_enabled"]) /\ srvErr = "none"
                         THEN "serving" ELSE "unset"
            /\ listening' = IF server' = "serving"
                            THEN << <<"", c2["server_port"]>> >> ELSE <<>>
            /\ docroot' = IF server' = "serving" THEN sp[2] ELSE ""
            /\ crash' = err
            /\ cfg' = IF err = "none" THEN SetKey(c2, "syntax_style", name) ELSE c2
            /\ app' = IF err = "none" THEN "running" ELSE "off"
            /\ last' = IF err = "none" THEN "change" ELSE "save"
    /\ UNCHANGED <<mgr, loadSrc, nchanges, ev>>

\* change_theme_mode_event (Settings menu)
change_theme_mode_event ==
    /\ app = "running"
    /\ nchanges < MaxChanges
    /\ \E theme \in Themes :
         /\ cfg' = SetKey(cfg, "theme", PyStr(theme))
         /\ ev' = [op |-> "change_theme_mode_event", in |-> theme]
         /\ fileData' = save(cfg')
         /\ savedCfg' = cfg'
    /\ fileExists' = TRUE
    /\ last' = "save"
    /\ nchanges' = nchanges + 1
    /\ UNCHANGED <<app, mgr, crash, server, server_path, loadSrc, listening, docroot>>

\* change_scaling_event (Settings menu, zoom keys)
change_scaling_event ==
    /\ app = "running"
    /\ nchanges < MaxChanges
    /\ \E new_scaling \in Zooms :
         /\ cfg' = SetKey(cfg, "zoom", PyStr(new_scaling))
         /\ ev' = [op |-> "change_scaling_event", in |-> new_scaling]
         /\ fileData' = save(cfg')
         /\ savedCfg' = cfg'
    /\ fileExists' = TRUE
    /\ last' = "save"
    /\ nchanges' = nchanges + 1
    /\ UNCHANGED <<app, mgr, crash, server, server_path, loadSrc, listening, docroot>>

\* load_syntax_style (Settings menu): stores the style, does not save
load_syntax_style ==
    /\ app = "running"
    /\ nchanges < MaxChanges
    /\ \E name \in Styles :
         /\ cfg' = SetKey(cfg, "syntax_style", PyStr(name))
         /\ ev' = [op |-> "load_syntax_style", in |-> name]
    /\ last' = "change"
    /\ nchanges' = nchanges + 1
    /\ UNCHANGED <<app, mgr, fileExists, fileData, crash, server, server_path,
                   loadSrc, savedCfg, listening, docroot>>

\* the application is closed
Quit ==
    /\ app = "running"
    /\ app' = "off"
    /\ mgr' = FALSE
    /\ server' = "unset"
    /\ listening' = <<>>
    /\ docroot' = ""
    /\ UNCHANGED <<cfg, fileExists, fileData, crash, server_path, last, loadSrc,
                   savedCfg, nchanges, ev>>


(***************************************************************************)
(* NETCONF operations: NetconfConnection and the handlers that use it      *)
(***************************************************************************)
\* the status bar after self.status(msg) / self.error(msg)
Status(msg) == <<FALSE, msg, PyNone, PyNone>>
Error(msg) == <<TRUE, msg, PyNone, PyNone>>
ErrorAt(msg, host, port) == <<TRUE, msg, host, port>>

\* text box contents: the canned templates, a loaded file, what the user
\* typed, a reply shown by an operation
Templates == {"RPC_GET_OPER", "RPC_SYSTEM_RESTART", "RPC_FACTORY_RESET",
              "RPC_SET_DATETIME", "install-bundle"}
Typed == {"edited_xml", "not_xml"}

\* to_ele(text) succeeds (the text is a well-formed XML document)
WellFormed(text) == text \in Templates \cup {"edited_xml", "config_file", "response"}

\* the operations that connect to the device
Callbacks == {"execute_put_config", "execute_get_oper", "execute_reboot",
              "execute_factory_reset", "execute_time_set", "start_upgrade"}

\* callbacks that call to_ele(self.textbox.get(...)) before their try block
ParseOutsideTry == {"execute_get_oper", "execute_reboot", "execute_time_set",
                    "start_upgrade"}

\* is_empty_connection_parameters
is_empty_connection_parameters(c) ==
    \/ c["addr"] = PyStr("")
    \/ c["port"] = PyStr("")
    \/ c["user"] = PyStr("")
    \/ c["pass"] = PyStr("")

\* no RPC call has been made on the session
NoCall == <<"none", "", "", "">>

\* the values of the Put configuration menu, lower-cased by put_config_cb
Datastores == {"running", "startup"}

OpenSessions == { i \in 1..Len(closeCalls) : closeCalls[i] = 0 }

connInit ==
    /\ pc = "idle"
    /\ curOp = "none"
    /\ viaSend = FALSE
    /\ m = 0
    /\ closeCalls = <<>>
    /\ attempts = 0
    /\ rpcCalls = 0
    /\ status = Status("")
    /\ raised = "none"
    /\ propagated = "none"
    /\ rpc_cb = "None"
    /\ textbox = "WELCOME"
    /\ payload = ""
    /\ closes = 0
    /\ excLog = {}
    /\ target = "running"
    /\ loadTarget = "running"
    /\ sendText = ""
    /\ sent = NoCall

\* the UI thread is free to run a handler of the main window
UiReady == app = "running" /\ pc = "idle"

\* the record of the operation is started afresh
BeginOp(op, via) ==
    /\ curOp' = op
    /\ viaSend' = via
    /\ m' = 0
    /\ attempts' = 0
    /\ rpcCalls' = 0
    /\ closes' = 0
    /\ excLog' = {}
    /\ raised' = "none"
    /\ propagated' = "none"
    /\ sent' = NoCall

\* self.show(template); self.rpc(message, method)
Canned(handler, template, message, method) ==
    /\ UiReady
    /\ BeginOp(handler, FALSE)
    /\ textbox' = template
    /\ status' = Status(message)
    /\ rpc_cb' = method
    /\ sendText' = ""
    /\ UNCHANGED <<pc, closeCalls, payload, target, loadTarget>>

get_oper_cb ==
    Canned("get_oper_cb", "RPC_GET_OPER", "RPC: Get operational status",
           "execute_get_oper")

reboot_cb ==
    Canned("reboot_cb", "RPC_SYSTEM_RESTART", "RPC: Reboot device", "execute_reboot")

factory_reset_cb ==
    Canned("factory_reset_cb", "RPC_FACTORY_RESET", "RPC: Perform factory reset",
           "execute_factory_reset")

time_set_cb ==
    Canned("time_set_cb", "RPC_SET_DATETIME", "RPC: Set system date/time",
           "execute_time_set")

\* upgrade_cb: without a selected image only an error is shown
upgrade_cb ==
    \/ Canned("upgrade_cb", "install-bundle", "RPC: Upgrade device", "start_upgrade")
    \/ /\ UiReady
       /\ BeginOp("upgrade_cb", FALSE)
       /\ status' = Error("No upgrade image selected!")
       /\ sendText' = ""
       /\ UNCHANGED <<pc, closeCalls, rpc_cb, textbox, payload, target, loadTarget>>

\* a mutation of put_config_cb: self.target is not assigned
target_kept(t, config) == t

\* put_config_cb: self.target = config
target_after_load(t, config) == config

\* put_config_cb: a chosen file is shown, the menu's datastore is stored and
\* execute_put_config is pending
put_config_cb ==
    /\ UiReady
    /\ BeginOp("put_config_cb", FALSE)
    /\ textbox' = "config_file"
    /\ \E config \in Datastores :
         /\ target' = target_after_load(target, config)
         /\ loadTarget' = config
    /\ status' = Status("RPC: Copy (backup) file to config")
    /\ rpc_cb' = "execute_put_config"
    /\ sendText' = ""
    /\ UNCHANGED <<pc, closeCalls, payload>>

\* the user edits the text box (no handler of the application runs)
EditText ==
    /\ UiReady
    /\ \E t \in Typed : textbox' = t
    /\ UNCHANGED <<pc, curOp, viaSend, m, closeCalls, attempts, rpcCalls, status,
                   raised, propagated, rpc_cb, payload, closes, excLog,
                   target, loadTarget, sendText, sent>>

\* get_config_cb, up to the with statement
get_config_cb ==
    /\ UiReady
    /\ Len(closeCalls) < MaxSessions
    /\ BeginOp("get_config_cb", FALSE)
    /\ payload' = ""
    /\ IF is_empty_connection_parameters(cfg)
       THEN /\ status' = Error("Connection parameters cannot be empty!")
            /\ pc' = "idle"
       ELSE /\ status' = Status("Fetching config ...")
            /\ pc' = "connect"
    /\ sendText' = ""
    /\ UNCHANGED <<closeCalls, rpc_cb, textbox, target, loadTarget>>

\* copy_config, up to the with statement
copy_config ==
    /\ UiReady
    /\ Len(closeCalls) < MaxSessions
    /\ BeginOp("copy_config", FALSE)
    /\ payload' = ""
    /\ textbox' = ""
    /\ status' = Status("Calling 'copy running-config startup-config', please wait ...")
    /\ pc' = "connect"
    /\ sendText' = ""
    /\ UNCHANGED <<closeCalls, rpc_cb, target, loadTarget>>

\* execute_netconf_command (Send), up to the with statement of the pending
\* callback or of the generic RPC
execute_netconf_command ==
    /\ UiReady
    /\ Len(closeCalls) < MaxSessions
    /\ IF is_empty_connection_parameters(cfg)
       THEN /\ BeginOp("execute_netconf_command", FALSE)
            /\ status' = Error("Connection parameters cannot be empty!")
            /\ pc' = "idle"
            /\ payload' = ""
            /\ UNCHANGED textbox
       ELSE IF rpc_cb # "None"
       THEN /\ BeginOp(rpc_cb, TRUE)
            /\ pc' = "connect"
            /\ IF rpc_cb = "execute_put_config"
               THEN /\ status' = Status("Restoring configuration, please wait ...")
                    /\ payload' = textbox
                    /\ textbox' = ""
               ELSE /\ payload' = ""
                    /\ UNCHANGED <<status, textbox>>
       ELSE /\ BeginOp("generic", FALSE)
            /\ pc' = "connect"
            /\ payload' = ""
            /\ UNCHANGED <<status, textbox>>
    /\ sendText' = textbox
    /\ UNCHANGED <<closeCalls, rpc_cb, target, loadTarget>>


\* a mutation of __enter__: SSHError is re-raised as well
enter_reraises_ssh(exc) == exc \notin {"AuthenticationError"}

\* NetconfConnection.__enter__: the exception is re-raised after it is reported
enter_reraises(exc) == exc \notin {"AuthenticationError", "SSHError"}

\* a mutation of __enter__: the two messages are attached to the wrong handlers
enter_error_status_swapped(exc, host, port) ==
    CASE exc = "SSHError" -> ErrorAt("Authentication with {host} failed", host, PyNone)
      [] exc = "AuthenticationError" ->
            ErrorAt("SSH connection to {host}:{port} failed", host, port)
      [] OTHER -> Error("An unexpected error occurred")

\* NetconfConnection.__enter__: the message each except clause puts on the status bar
enter_error_status(exc, host, port) ==
    CASE exc = "AuthenticationError" ->
            ErrorAt("Authentication with {host} failed", host, PyNone)
      [] exc = "SSHError" -> ErrorAt("SSH connection to {host}:{port} failed", host, port)
      [] OTHER -> Error("An unexpected error occurred")

\* a mutation: the operation connects again after a failed attempt
retry_after_failure == "connect"

\* where the UI thread continues after __enter__ handled a connect failure:
\* __enter__ returns None and the with body runs once
after_connect_failure == "body"

\* a mutation of __exit__: the session is closed only when the body did not raise
exit_closes_unless_raised(mg, exc) == mg # 0 /\ exc = "none"

\* NetconfConnection.__exit__: close_session is called when a manager is held
exit_closes(mg, exc) == mg # 0

\* the handler returns to the event loop, or exc leaves it; Send resets the
\* pending callback only when the callback returned
EndHandler(exc) ==
    /\ pc' = "idle"
    /\ raised' = "none"
    /\ propagated' = exc
    /\ rpc_cb' = IF viaSend /\ exc = "none" THEN "None" ELSE rpc_cb

\* NetconfConnection.__enter__: one manager.connect call and its outcome
Enter ==
    /\ pc = "connect"
    /\ attempts' = attempts + 1
    /\ \E outcome \in {"ok", "AuthenticationError", "SSHError", "Exception"} :
         IF outcome = "ok"
         THEN /\ closeCalls' = Append(closeCalls, 0)
              /\ m' = Len(closeCalls) + 1
              /\ status' = Status("Connecting to {host} port {port}, please wait ...")
              /\ pc' = "body"
              /\ UNCHANGED <<excLog, raised, propagated, rpc_cb>>
         ELSE /\ excLog' = excLog \cup {outcome}
              /\ status' = enter_error_status(outcome, cfg["addr"], cfg["port"])
              /\ m' = 0
              /\ UNCHANGED closeCalls
              /\ IF enter_reraises(outcome)
                 THEN EndHandler(outcome)
                 ELSE /\ pc' = after_connect_failure
                      /\ UNCHANGED <<raised, propagated, rpc_cb>>
    /\ UNCHANGED <<curOp, viaSend, rpcCalls, textbox, payload, closes,
                   target, loadTarget, sendText, sent>>

\* a mutation of execute_netconf_command: XMLSyntaxError falls through to
\* the outer except clause
parse_error_status_outer(op) ==
    IF op = "generic"
    THEN Error("Command failed! Check connection parameters.")
    ELSE Error("Failed factory reset")

\* the status an operation that parses the text box inside its try block
\* shows when to_ele fails: execute_netconf_command's except XMLSyntaxError,
\* execute_factory_reset's except Exception
parse_error_status(op) ==
    IF op = "generic" THEN Error("XML Syntax Error") ELSE Error("Failed factory reset")

\* the arguments of the RPC call an operation makes on the session
rpc_call(op, tgt, doc) ==
    CASE op = "execute_put_config" -> <<"edit_config", tgt, "nc:config", doc>>
      [] op = "get_config_cb" -> <<"get_config", "", "", "">>
      [] op = "copy_config" -> <<"copy_config", "startup", "", "">>
      [] OTHER -> <<"dispatch", "", "", doc>>

\* the body of the with statement up to the RPC call: the None check and,
\* where the operation parses the text box, to_ele
Body ==
    /\ pc = "body"
    /\ IF m = 0
       THEN /\ pc' = "exit"
            /\ UNCHANGED <<status, raised, textbox, payload>>
       ELSE IF curOp \in {"get_config_cb", "copy_config", "execute_put_config"}
       THEN /\ pc' = "rpc"
            /\ UNCHANGED <<status, raised, textbox, payload>>
       ELSE IF WellFormed(textbox)
       THEN /\ pc' = "rpc"
            /\ payload' = textbox
            /\ textbox' = IF curOp \in ParseOutsideTry THEN "" ELSE textbox
            /\ UNCHANGED <<status, raised>>
       ELSE /\ pc' = "exit"
            /\ UNCHANGED <<textbox, payload>>
            /\ IF curOp \in ParseOutsideTry
               THEN /\ raised' = "XMLSyntaxError"
                    /\ UNCHANGED status
               ELSE /\ status' = parse_error_status(curOp)
                    /\ UNCHANGED raised
    /\ UNCHANGED <<curOp, viaSend, m, closeCalls, attempts, rpcCalls, propagated,
                   rpc_cb, closes, excLog, target, loadTarget, sendText, sent>>

\* the RPC call on the session inside the try block and what follows it there
Rpc ==
    /\ pc = "rpc"
    /\ rpcCalls' = rpcCalls + 1
    /\ sent' = rpc_call(curOp, target, payload)
    /\ pc' = "exit"
    /\ \E outcome \in {"ok", "rejected", "RPCError"} :
         CASE outcome = "ok" ->
                /\ status' = Status("done.")
                /\ textbox' = IF curOp \in {"copy_config", "execute_put_config",
                                            "start_upgrade"}
                              THEN textbox ELSE "response"
                /\ UNCHANGED excLog
           [] outcome = "rejected" ->
                /\ curOp \in {"generic", "start_upgrade"}
                /\ status' = Error("Command rejected")
                /\ textbox' = IF curOp = "start_upgrade" THEN "response" ELSE textbox
                /\ UNCHANGED excLog
           [] OTHER ->
                /\ status' = Error("Command failed")
                /\ excLog' = excLog \cup {"RPCError"}
                /\ UNCHANGED textbox
    /\ UNCHANGED <<curOp, viaSend, m, closeCalls, attempts, raised, propagated,
                   rpc_cb, payload, closes, target, loadTarget, sendText>>

\* NetconfConnection.__exit__ and the return of the handler
Exit ==
    /\ pc = "exit"
    /\ IF exit_closes(m, raised)
       THEN /\ closeCalls' = [closeCalls EXCEPT ![m] = @ + 1]
            /\ closes' = closes + 1
            /\ \E closeFails \in BOOLEAN :
                 IF closeFails
                 THEN /\ excLog' = excLog \cup {"CloseError"}
                      /\ EndHandler("CloseError")
                 ELSE /\ UNCHANGED excLog
                      /\ EndHandler(raised)
       ELSE /\ EndHandler(raised)
            /\ UNCHANGED <<closeCalls, closes, excLog>>
    /\ UNCHANGED <<curOp, viaSend, m, attempts, rpcCalls, status, textbox, payload,
                   target, loadTarget, sendText, sent>>


(***************************************************************************)
(* mDNS-SD discovery: ZeroconfListener and the device picker               *)
(***************************************************************************)
\* a Python dict as the sequence of its <<key, value>> items in insertion order
DictHas(d, k) == \E i \in 1..Len(d) : d[i][1] = k

DictKeys(d) == { d[i][1] : i \in 1..Len(d) }

\* d[k] = v
DictSet(d, k, v) ==
    IF DictHas(d, k)
    THEN [i \in 1..Len(d) |-> IF d[i][1] = k THEN <<k, v>> ELSE d[i]]
    ELSE Append(d, <<k, v>>)

\* del d[k]
DictDel(d, k) ==
    LET keep(e) == e[1] # k IN SelectSeq(d, keep)

\* list(d.values())
DictValues(d) == [i \in 1..Len(d) |-> d[i][2]]

\* service names announced on the network
Names == {"sw1._netconf-ssh._tcp.local.", "sw2._netconf-ssh._tcp.local."}

\* packed IPv4 addresses as ServiceInfo.addresses holds them
Packed1 == <<10, 0, 0, 1>>
Packed2 == <<10, 0, 0, 2>>

\* socket.inet_ntoa on these addresses
inet_ntoa(a) ==
    CASE a = Packed1 -> "10.0.0.1"
      [] a = Packed2 -> "10.0.0.2"
      [] OTHER -> "0.0.0.0"

\* what zeroconf.get_service_info returns: <<"None">> when the service cannot
\* be resolved, else <<"info", server, addresses, port>>; addresses lists the
\* IPv4 addresses only and is empty for a service announced over IPv6 alone
NoInfo == <<"None">>
ServiceInfos ==
    { <<"info", srv, addresses, 830>> :
        srv \in {"", "sw1.local."},
        addresses \in {<<>>, <<Packed1>>, <<Packed1, Packed2>>} }

\* the for loop of add_service over the addresses
RECURSIVE add_addresses(_, _, _, _, _)
add_addresses(d, name, hostname, addresses, port) ==
    IF addresses = <<>> THEN d
    ELSE add_addresses(DictSet(d, name, <<hostname, inet_ntoa(Head(addresses)), port>>),
                       name, hostname, Tail(addresses), port)

\* add_service: the mapping after the loop
add_service_mapping(d, name, info) ==
    LET hostname == IF info[2] # "" THEN info[2] ELSE name
    IN add_addresses(d, name, hostname, info[3], info[4])

\* a mutation of remove_service: the callback does nothing
remove_service_pass(d, name) == d

\* remove_service: the mapping after del self.devices[name]
remove_service_mapping(d, name) == IF DictHas(d, name) THEN DictDel(d, name) ELSE d

\* SimpleNetconfClient.update_device_list(devices): list(devices.values());
\* the argument is <<"dict", d>> or <<"dict_values", values>>, and only a
\* dict has a values() method
update_device_list(arg) ==
    IF arg[1] = "dict" THEN <<"ok", DictValues(arg[2])>> ELSE <<"AttributeError">>

discInit ==
    /\ devices = <<>>
    /\ appDevices = <<>>
    /\ uiPc = "idle"
    /\ dialogDevices = <<>>
    /\ cbPc = "idle"
    /\ cbExc = "none"
    /\ ncallbacks = 0
    /\ resolved = {}
    /\ expected = {}

\* the entries of `expected` of the other names
ExpectedOthers(name) == { e \in expected : e[1] # name }

\* add_service, up to the call of update_device_list
add_service ==
    /\ app = "running"
    /\ cbPc = "idle"
    /\ ncallbacks < MaxCallbacks
    /\ ncallbacks' = ncallbacks + 1
    /\ cbExc' = "none"
    /\ \E name \in Names, info \in ServiceInfos \cup {NoInfo} :
         IF info = NoInfo
         THEN UNCHANGED <<devices, cbPc, resolved, expected>>
         ELSE /\ devices' = add_service_mapping(devices, name, info)
              /\ cbPc' = "add_update"
              /\ resolved' = resolved \cup {name}
              /\ expected' =
                   IF info[3] = <<>> THEN expected
                   ELSE ExpectedOthers(name) \cup
                        {<<name, IF info[2] # "" THEN info[2] ELSE name,
                           { inet_ntoa(info[3][i]) : i \in 1..Len(info[3]) }, info[4]>>}
    /\ UNCHANGED <<appDevices, uiPc, dialogDevices>>

\* add_service: self.app.update_device_list(self.devices)
add_service_update ==
    /\ cbPc = "add_update"
    /\ LET r == update_device_list(<<"dict", devices>>)
       IN /\ appDevices' = IF r[1] = "ok" THEN r[2] ELSE appDevices
          /\ cbExc' = IF r[1] = "ok" THEN "none" ELSE r[1]
    /\ cbPc' = "idle"
    /\ UNCHANGED <<devices, uiPc, dialogDevices, ncallbacks, resolved, expected>>

\* remove_service, up to the call of update_device_list
remove_service ==
    /\ app = "running"
    /\ cbPc = "idle"
    /\ ncallbacks < MaxCallbacks
    /\ ncallbacks' = ncallbacks + 1
    /\ cbExc' = "none"
    /\ \E name \in Names :
         /\ devices' = remove_service_mapping(devices, name)
         /\ cbPc' = IF DictHas(devices, name) THEN "remove_update" ELSE "idle"
         /\ resolved' = resolved \ {name}
         /\ expected' = ExpectedOthers(name)
    /\ UNCHANGED <<appDevices, uiPc, dialogDevices>>

\* remove_service: self.app.update_device_list(self.devices.values())
remove_service_update ==
    /\ cbPc = "remove_update"
    /\ LET r == update_device_list(<<"dict_values", DictValues(devices)>>)
       IN /\ appDevices' = IF r[1] = "ok" THEN r[2] ELSE appDevices
          /\ cbExc' = IF r[1] = "ok" THEN "none" ELSE r[1]
    /\ cbPc' = "idle"
    /\ UNCHANGED <<devices, uiPc, dialogDevices, ncallbacks, resolved, expected>>

\* a mutation of show_device_list: the dialog is built only while no
\* discovery callback is running, as if a lock were shared with the listener
show_device_list_open_locked ==
    /\ uiPc = "checked"
    /\ cbPc = "idle"
    /\ dialogDevices' = appDevices
    /\ uiPc' = "dialog"
    /\ UNCHANGED <<devices, appDevices, cbPc, cbExc, ncallbacks, resolved, expected>>
    /\ UNCHANGED <<cfgVars, connVars>>

\* show_device_list: if not self.devices (first read of the list)
show_device_list_check ==
    /\ UiReady
    /\ uiPc = "idle"
    /\ uiPc' = IF appDevices = <<>> THEN "idle" ELSE "checked"
    /\ UNCHANGED <<devices, appDevices, dialogDevices, cbPc, cbExc, ncallbacks,
                   resolved, expected>>
    /\ UNCHANGED <<cfgVars, connVars>>

\* show_device_list: ScanResultsDialog(self, self.devices) (second read)
show_device_list_open ==
    /\ uiPc = "checked"
    /\ dialogDevices' = appDevices
    /\ uiPc' = "dialog"
    /\ UNCHANGED <<devices, appDevices, cbPc, cbExc, ncallbacks, resolved, expected>>
    /\ UNCHANGED <<cfgVars, connVars>>

\* ScanResultsDialog.on_ok / on_cancel and the rest of show_device_list;
\* sel = 0 stands for no selection
show_device_list_close ==
    /\ uiPc = "dialog"
    /\ uiPc' = "idle"
    /\ \E sel \in 0..Len(dialogDevices) :
         IF sel = 0
         THEN /\ status' = Status("Cancelled.")
              /\ UNCHANGED cfg
         ELSE /\ cfg' = SetKey(SetKey(cfg, "addr", PyStr(dialogDevices[sel][2])),
                               "port", PyInt(dialogDevices[sel][3]))
              /\ status' = Status("Using {name} ({ip}:{port})")
    /\ UNCHANGED <<devices, appDevices, dialogDevices, cbPc, cbExc, ncallbacks,
                   resolved, expected>>
    /\ UNCHANGED <<app, mgr, fileExists, fileData, crash, server, server_path,
                   last, loadSrc, savedCfg, nchanges, listening, docroot, ev>>
    /\ UNCHANGED <<pc, curOp, viaSend, m, closeCalls, attempts, rpcCalls, raised,
                   propagated, rpc_cb, textbox, payload, closes, excLog,
                   target, loadTarget, sendText, sent>>


(***************************************************************************)
(* Web server settings and the static file server                          *)
(***************************************************************************)
\* what the interface menu can hold: "<name> (<ip>)" for an interface that
\* get_interfaces found, or nothing when it found none
InterfaceTexts == {"", "eth0 (10.0.0.5)"}

\* get_interfaces: the IPv4 address of a named interface of this host
InterfaceAddress(iface) ==
    CASE iface = PyStr("eth0") -> "10.0.0.5"
      [] iface = PyStr("virbr0") -> "192.168.122.1"
      [] OTHER -> "no such interface"

\* get_iface_ip: the groups of the match of "<name> (<ip>)", else (None, None)
get_iface_ip(text) ==
    CASE text = "eth0 (10.0.0.5)" -> <<PyStr("eth0"), PyStr("10.0.0.5")>>
      [] text = "virbr0 (192.168.122.1)" -> <<PyStr("virbr0"), PyStr("192.168.122.1")>>
      [] OTHER -> <<PyNone, PyNone>>

\* int(text) of the text of an entry: the number, or <<"ValueError">>
int(text) ==
    CASE text = "-1" -> PyInt(0 - 1)
      [] text = "0" -> PyInt(0)
      [] text = "1" -> PyInt(1)
      [] text = "830" -> PyInt(830)
      [] text = "8080" -> PyInt(8080)
      [] text = "8081" -> PyInt(8081)
      [] text = "65535" -> PyInt(65535)
      [] text = "65536" -> PyInt(65536)
      [] OTHER -> <<"ValueError">>

\* texts of the server port entry, directories the chooser returns ("" when
\* it is cancelled), values of the "Server Enabled" switch
ServerPortTexts == {"8081", "abc"}
Directories == {"", "/srv/new"}
SwitchValues == {0, 1}

\* the outcome of a file server call: self.server, the bound sockets, the
\* exception raised ("none" when it returns) and the value returned
ServerResult(srv, socks, exc, ret) ==
    [server |-> srv, listening |-> socks, exc |-> exc, ret |-> ret]

\* start_file_server
start_file_server(c, sp, srv, socks, bindFails) ==
    IF ~Truthy(c["server_enabled"]) THEN ServerResult(srv, socks, "none", FALSE)
    ELSE IF StartFileServerError(c, sp, bindFails) # "none"
    THEN ServerResult(srv, socks, StartFileServerError(c, sp, bindFails), FALSE)
    ELSE ServerResult("serving", Append(socks, <<"", c["server_port"]>>),
                      "none", TRUE)

\* the bound sockets after self.server.shutdown(); self.server.server_close()
server_close(srv, socks) ==
    IF srv = "serving" THEN SubSeq(socks, 1, Len(socks) - 1) ELSE socks

\* a mutation of restart_file_server: the previous server is left open
restart_without_close(c, sp, srv, socks, bindFails) ==
    IF srv = "unset" THEN ServerResult(srv, socks, "AttributeError", FALSE)
    ELSE start_file_server(c, sp, srv, socks, bindFails)

\* restart_file_server: "if self.server:" reads an attribute that only
\* start_file_server assigns
restart_file_server(c, sp, srv, socks, bindFails) ==
    IF srv = "unset" THEN ServerResult(srv, socks, "AttributeError", FALSE)
    ELSE start_file_server(c, sp, "closed", server_close(srv, socks), bindFails)

\* the operation variables a settings handler leaves alone
opVars == <<pc, curOp, viaSend, m, closeCalls, attempts, rpcCalls, raised,
            rpc_cb, textbox, payload, closes, excLog, target, loadTarget,
            sendText, sent>>

\* the configuration variables a settings handler leaves alone
keptVars == <<app, mgr, crash, loadSrc, nchanges>>

\* a settings handler ended by an exception before it saved or restarted
SettingsAbort(c, exc) ==
    /\ cfg' = c
    /\ propagated' = exc
    /\ UNCHANGED <<fileExists, fileData, savedCfg, last, server, server_path,
                   listening, docroot, status>>

\* a settings handler that stored c and then called restart_file_server;
\* okStatus / offStatus is the status it shows for the value returned
SaveAndRestart(c, sp, r, okStatus, offStatus) ==
    /\ cfg' = c
    /\ server_path' = sp
    /\ fileExists' = TRUE
    /\ fileData' = save(c)
    /\ savedCfg' = c
    /\ last' = "save"
    /\ server' = r.server
    /\ listening' = r.listening
    /\ docroot' = IF r.ret THEN sp[2] ELSE docroot
    /\ propagated' = r.exc
    /\ status' = IF r.exc # "none" THEN status
                 ELSE IF r.ret THEN okStatus ELSE offStatus

\* select_directory (the ".." button)
select_directory ==
    /\ UiReady
    /\ \E directory \in Directories, bindFails \in BOOLEAN :
         LET c == SetKey(cfg, "server_path", PyStr(directory))
             sp == <<"set", directory>>
             r == restart_file_server(c, sp, server, listening, bindFails)
         IN IF server_path = <<"unset">>
            THEN /\ SettingsAbort(cfg, "AttributeError")
                 /\ ev' = [op |-> "select_directory", was |-> server, exc |-> "AttributeError",
                           started |-> FALSE, in |-> [directory |-> directory]]
            ELSE IF directory = ""
            THEN /\ SettingsAbort(cfg, "none")
                 /\ ev' = [op |-> "select_directory", was |-> server, exc |-> "none",
                           started |-> FALSE, in |-> [directory |-> directory]]
            ELSE /\ SaveAndRestart(c, sp, r,
                        <<FALSE, "HTTP server, serving files from", PyStr(directory), PyNone>>,
                        <<FALSE, "HTTP server, serving files from", PyStr(directory), PyNone>>)
                 /\ ev' = [op |-> "select_directory", was |-> server, exc |-> r.exc,
                           started |-> r.ret, in |-> [directory |-> directory]]
    /\ UNCHANGED <<keptVars, opVars>>

\* save_server_settings ("Apply & Save")
save_server_settings ==
    /\ UiReady
    /\ \E text \in InterfaceTexts, port \in ServerPortTexts,
          enabled \in SwitchValues, bindFails \in BOOLEAN :
         LET in == [iface |-> text, port |-> port, enabled |-> enabled]
             c1 == SetKey(cfg, "server_iface", get_iface_ip(text)[1])
             c2 == SetKey(c1, "server_path", PyStr(server_path[2]))
             c3 == SetKey(c2, "server_enabled", PyInt(enabled))
             c4 == SetKey(c3, "server_port", int(port))
             r == restart_file_server(c4, server_path, server, listening, bindFails)
         IN IF server_path = <<"unset">>
            THEN /\ SettingsAbort(c1, "AttributeError")
                 /\ ev' = [op |-> "save_server_settings", was |-> server, exc |-> "AttributeError",
                           started |-> FALSE, in |-> in]
            ELSE IF int(port) = <<"ValueError">>
            THEN /\ cfg' = c3
                 /\ status' = Error("Invalid server port. Please enter a valid number.")
                 /\ propagated' = "none"
                 /\ UNCHANGED <<fileExists, fileData, savedCfg, last, server,
                                server_path, listening, docroot>>
                 /\ ev' = [op |-> "save_server_settings", was |-> server, exc |-> "none",
                           started |-> FALSE, in |-> in]
            ELSE /\ SaveAndRestart(c4, server_path, r,
                        Status("Web server settings updated and server restarted."),
                        Status("Web server settings saved, server not running."))
                 /\ ev' = [op |-> "save_server_settings", was |-> server, exc |-> r.exc,
                           started |-> r.ret, in |-> in]
    /\ UNCHANGED <<keptVars, opVars>>


(***************************************************************************)
(* Connection parameters                                                   *)
(***************************************************************************)
\* texts of the address, port, username and password entries
AddressTexts == {"", "10.0.0.2"}
PortTexts == {"", "abc", "-1", "0", "1", "830", "65535", "65536"}
UsernameTexts == {"", "operator"}
PasswordTexts == {"", "hunter2"}

\* is_port_valid
is_port_valid(text) ==
    IF int(text) = <<"ValueError">> THEN FALSE
    ELSE 0 < int(text)[2] /\ int(text)[2] <= 65535

\* a mutation of save_params: the password entry is not checked
params_error_password_unchecked(in) ==
    IF in.address = "" \/ in.port = "" \/ in.username = ""
    THEN "Connection parameters cannot be empty!"
    ELSE IF ~is_port_valid(in.port) THEN "Port must be in range 0-65535"
    ELSE "none"

\* save_params, the two checks made before anything is stored: the error
\* shown, "none" when the fields pass
params_error(in) ==
    IF in.address = "" \/ in.port = "" \/ in.username = "" \/ in.password = ""
    THEN "Connection parameters cannot be empty!"
    ELSE IF ~is_port_valid(in.port) THEN "Port must be in range 0-65535"
    ELSE "none"

\* save_params, the assignments to the record
params_stored(c, in) ==
    SetKey(SetKey(SetKey(SetKey(SetKey(c,
        "addr", PyStr(in.address)),
        "port", PyStr(in.port)),
        "user", PyStr(in.username)),
        "pass", PyStr(in.password)),
        "ssh-agent", PyInt(in.ssh_agent))

\* save_params ("Apply & Save" of the connection parameters)
save_params ==
    /\ UiReady
    /\ \E address \in AddressTexts, port \in PortTexts, username \in UsernameTexts,
          password \in PasswordTexts, ssh_agent \in SwitchValues :
         LET in == [address |-> address, port |-> port, username |-> username,
                    password |-> password, ssh_agent |-> ssh_agent]
         IN /\ ev' = [op |-> "save_params", in |-> in]
            /\ IF params_error(in) # "none"
               THEN /\ status' = Error(params_error(in))
                    /\ UNCHANGED <<cfg, fileExists, fileData, savedCfg, last>>
               ELSE /\ cfg' = params_stored(cfg, in)
                    /\ fileExists' = TRUE
                    /\ fileData' = save(cfg')
                    /\ savedCfg' = cfg'
                    /\ last' = "save"
                    /\ status' = Status("Connection parameters updated.")
    /\ propagated' = "none"
    /\ UNCHANGED <<server, server_path, listening, docroot, keptVars, opVars>>


(***************************************************************************)
(* Specifications                                                          *)
(***************************************************************************)
\* the configuration record: every config file considered, the manager's
\* operations, application start, the Settings menu
CfgNext ==
    \/ ConfigManager_init /\ UNCHANGED <<connVars, discVars>>
    \/ ConfigManager_load /\ UNCHANGED <<connVars, discVars>>
    \/ ConfigManager_save /\ UNCHANGED <<connVars, discVars>>
    \/ App_init_ConfigManager /\ UNCHANGED <<connVars, discVars>>
    \/ App_init_Gui /\ UNCHANGED <<connVars, discVars>>
    \/ change_theme_mode_event /\ UNCHANGED <<connVars, discVars>>
    \/ change_scaling_event /\ UNCHANGED <<connVars, discVars>>
    \/ load_syntax_style /\ UNCHANGED <<connVars, discVars>>
    \/ Quit /\ UNCHANGED <<connVars, discVars>>

CfgInit == cfgInit /\ connInit /\ discInit

SpecCfg == CfgInit /\ [][CfgNext]_vars

\* config files the application starts from in the other specifications: one
\* written by a current version with nothing else set, one with every key set
MinimalFile == [k \in {"max_highlighting_size"} |-> FileValue(k)]
FullFile == [k \in AllKeys |-> FileValue(k)]

\* the device operations of a running application
ConnNext ==
    \/ App_init_ConfigManager /\ UNCHANGED <<connVars, discVars>>
    \/ App_init_Gui /\ UNCHANGED <<connVars, discVars>>
    \/ get_oper_cb /\ UNCHANGED <<cfgVars, discVars>>
    \/ reboot_cb /\ UNCHANGED <<cfgVars, discVars>>
    \/ factory_reset_cb /\ UNCHANGED <<cfgVars, discVars>>
    \/ time_set_cb /\ UNCHANGED <<cfgVars, discVars>>
    \/ upgrade_cb /\ UNCHANGED <<cfgVars, discVars>>
    \/ put_config_cb /\ UNCHANGED <<cfgVars, discVars>>
    \/ EditText /\ UNCHANGED <<cfgVars, discVars>>
    \/ get_config_cb /\ UNCHANGED <<cfgVars, discVars>>
    \/ copy_config /\ UNCHANGED <<cfgVars, discVars>>
    \/ execute_netconf_command /\ UNCHANGED <<cfgVars, discVars>>
    \/ Enter /\ UNCHANGED <<cfgVars, discVars>>
    \/ Body /\ UNCHANGED <<cfgVars, discVars>>
    \/ Rpc /\ UNCHANGED <<cfgVars, discVars>>
    \/ Exit /\ UNCHANGED <<cfgVars, discVars>>

ConnInit ==
    /\ cfgInit /\ fileExists = TRUE /\ fileData \in {MinimalFile, FullFile}
    /\ connInit /\ discInit

SpecConn == ConnInit /\ [][ConnNext]_vars

\* discovery callbacks against the device picker of a running application
DiscNext ==
    \/ App_init_ConfigManager /\ UNCHANGED <<connVars, discVars>>
    \/ App_init_Gui /\ UNCHANGED <<connVars, discVars>>
    \/ add_service /\ UNCHANGED <<cfgVars, connVars>>
    \/ add_service_update /\ UNCHANGED <<cfgVars, connVars>>
    \/ remove_service /\ UNCHANGED <<cfgVars, connVars>>
    \/ remove_service_update /\ UNCHANGED <<cfgVars, connVars>>
    \/ show_device_list_check
    \/ show_device_list_open
    \/ show_device_list_close

DiscInit ==
    /\ cfgInit /\ fileExists = TRUE /\ fileData = MinimalFile
    /\ connInit /\ discInit

SpecDisc == DiscInit /\ [][DiscNext]_vars


\* config files of the web server settings: nothing set, everything set, only
\* a server directory set
PathOnlyFile == [k \in {"max_highlighting_size", "server_path"} |-> FileValue(k)]

\* the web server frame of a running application
SrvNext ==
    \/ App_init_ConfigManager /\ UNCHANGED <<connVars, discVars>>
    \/ App_init_Gui /\ UNCHANGED <<connVars, discVars>>
    \/ select_directory /\ UNCHANGED discVars
    \/ save_server_settings /\ UNCHANGED discVars
    \/ Quit /\ UNCHANGED <<connVars, discVars>>

SrvInit ==
    /\ cfgInit /\ fileExists = TRUE
    /\ fileData \in {MinimalFile, FullFile, PathOnlyFile}
    /\ connInit /\ discInit

SpecSrv == SrvInit /\ [][SrvNext]_vars

\* the connection parameter frame of a running application
ParamsNext ==
    \/ App_init_ConfigManager /\ UNCHANGED <<connVars, discVars>>
    \/ App_init_Gui /\ UNCHANGED <<connVars, discVars>>
    \/ save_params /\ UNCHANGED discVars
    \/ Quit /\ UNCHANGED <<connVars, discVars>>

ParamsInit ==
    /\ cfgInit /\ fileExists = TRUE /\ fileData \in {MinimalFile, FullFile}
    /\ connInit /\ discInit

SpecParams == ParamsInit /\ [][ParamsNext]_vars

(***************************************************************************)
(* Properties                                                              *)
(***************************************************************************)
\* C1: after ConfigManager.load, whatever file was on disk (or none), every
\* key of the default template is in the record; a key the file holds has the
\* file's value and a key the file lacks has the default value.
C1_LoadMergesDefaults ==
    last \in {"load", "save_load"} =>
        /\ \A k \in DefaultKeys :
             /\ k \in DOMAIN cfg
             /\ cfg[k] = IF loadSrc.exists /\ k \in DOMAIN loadSrc.data
                         THEN json_load_value(loadSrc.data[k])
                         ELSE default_cfg[k]
        /\ loadSrc.exists =>
             \A k \in DOMAIN loadSrc.data :
                 k \in DOMAIN cfg /\ cfg[k] = json_load_value(loadSrc.data[k])

\* a load has read a file that holds some keys of the template and lacks others
C1_Witness ==
    /\ last = "load"
    /\ loadSrc.exists
    /\ DefaultKeys \cap DOMAIN loadSrc.data # {}
    /\ DefaultKeys \ DOMAIN loadSrc.data # {}

\* C2: save followed by load, by the same manager or by a newly constructed
\* one, yields a record equal to the one saved, keys outside the default
\* template included.
C2_SaveLoadRoundTrip == last = "save_load" => cfg = savedCfg

\* a record holding syntax_style and a value set from the menu was saved and
\* loaded again
C2_Witness ==
    /\ last = "save_load"
    /\ "syntax_style" \in DOMAIN cfg
    /\ cfg["theme"] = PyStr("Light")

\* C3: once the startup load-and-merge is done, every key the GUI reads
\* without a fallback is in the record and the GUI never fails on a missing key.
C3_GuiKeysPresent ==
    /\ app \in {"starting", "running"} => GuiKeys \subseteq DOMAIN cfg
    /\ crash # "KeyError"

\* C4: a session obtained by __enter__ has close_session called on it exactly
\* once before the operation that opened it finishes, however the operation
\* ends; outside an operation no session is open.
C4_AlwaysClose ==
    \A i \in 1..Len(closeCalls) :
        /\ closeCalls[i] <= 1
        /\ closeCalls[i] = 0 => i = m /\ pc \in {"body", "rpc", "exit"}

\* an operation whose body raised (to_ele outside the try block) has ended and
\* its session was closed
C4_Witness == pc = "idle" /\ propagated = "XMLSyntaxError" /\ closes = 1

\* C5 as stated: no exception of the library (connect, RPC call,
\* close_session) leaves the handler, and each ends as an error message.
C5_NoLibraryExceptionPropagates ==
    /\ propagated \notin {"AuthenticationError", "SSHError", "Exception",
                          "RPCError", "CloseError"}
    /\ pc = "idle" /\ excLog # {} => status[1] = TRUE

\* C5 as amended: AuthenticationError and SSHError from connect and every
\* exception of an RPC call are caught in the operation and leave an error
\* message; any other exception of connect is reported and re-raised out of
\* the handler; an exception of close_session leaves the handler uncaught.
C5_LibraryExceptionOutcomes ==
    pc = "idle" =>
        /\ propagated \notin {"AuthenticationError", "SSHError", "RPCError"}
        /\ excLog \cap {"AuthenticationError", "SSHError", "RPCError", "Exception"} # {}
             => status[1] = TRUE
        /\ "Exception" \in excLog => propagated = "Exception"
        /\ "CloseError" \in excLog => propagated = "CloseError"

\* an operation whose RPC call raised has ended without an exception leaving it
C5_Witness == pc = "idle" /\ "RPCError" \in excLog /\ propagated = "none"

\* C6: after AuthenticationError the status bar shows the authentication
\* message for the host, after SSHError the SSH message for host and port; the
\* wrapper yields None, the operation makes no RPC call and close_session is
\* not called.
C6_ConnectFailure ==
    /\ "AuthenticationError" \in excLog =>
         /\ status = ErrorAt("Authentication with {host} failed", cfg["addr"], PyNone)
         /\ m = 0 /\ rpcCalls = 0 /\ closes = 0
    /\ "SSHError" \in excLog =>
         /\ status = ErrorAt("SSH connection to {host}:{port} failed",
                             cfg["addr"], cfg["port"])
         /\ m = 0 /\ rpcCalls = 0 /\ closes = 0

\* a pending callback run by Send has ended on an authentication failure
C6_Witness == pc = "idle" /\ viaSend /\ "AuthenticationError" \in excLog

\* C7: an operation calls connect at most once, and at most one session is
\* open at any time.
C7_OneLinearConnection == attempts <= 1 /\ Cardinality(OpenSessions) <= 1

\* a later operation has ended after its one failed attempt, an earlier one
\* having held a session
C7_Witness ==
    /\ pc = "idle"
    /\ Len(closeCalls) >= 1
    /\ attempts = 1
    /\ "SSHError" \in excLog

\* C8 as stated: the mapping holds exactly the names added with service info
\* and not removed since.
C8_MappingIsResolvedNames == DictKeys(devices) = resolved

\* C8 as amended: the mapping holds exactly the names added with service info
\* that carried at least one IPv4 address and not removed since, each once,
\* mapped to the hostname, one of the addresses and the port of the last such add.
C8_MappingIsAddressedNames ==
    /\ DictKeys(devices) = { e[1] : e \in expected }
    /\ \A i, j \in 1..Len(devices) : devices[i][1] = devices[j][1] => i = j
    /\ \A i \in 1..Len(devices) :
         \E e \in expected :
            /\ e[1] = devices[i][1]
            /\ devices[i][2][1] = e[2]
            /\ devices[i][2][2] \in e[3]
            /\ devices[i][2][3] = e[4]

\* callbacks have completed, one name is in the mapping and another, added
\* with service info that carried no address, is not
C8_Witness ==
    /\ cbPc = "idle"
    /\ Len(devices) = 1
    /\ Cardinality(resolved) = 2

\* C9: when no callback is running the application's device list equals the
\* values of the listener's mapping.
C9_ListFollowsMapping == cbPc = "idle" => appDevices = DictValues(devices)

ServerJustStarted ==
    /\ server = "serving"
    /\ ev.op = "none" \/ ev.started

\* C11: across application start, directory selection and "Apply & Save", at
\* most one static file server holds a bound socket at any time, and none
\* does unless self.server is the serving one: restart_file_server closes
\* the previous server before the new one is created
C11_AtMostOneServer ==
    /\ Len(listening) <= 1
    /\ server # "serving" => listening = <<>>

\* a running server was replaced by a new one
C11_Witness ==
    /\ ev.op \in {"select_directory", "save_server_settings"}
    /\ ev.was = "serving"
    /\ ev.started
    /\ Len(listening) = 1

\* C12: after start_file_server succeeds, the listening socket is bound to
\* the address of the configured interface cfg['server_iface'] and to
\* cfg['server_port']
C12_BoundToConfiguredInterface ==
    ServerJustStarted =>
        listening = << <<InterfaceAddress(cfg["server_iface"]), cfg["server_port"]>> >>

\* C20: save_server_settings with a server port that is not a number shows
\* an error and leaves the in-memory record, the config file and the file
\* server as they were
C20_InvalidPortChangesNothing ==
    [][ ( /\ ev' # ev
          /\ ev'.op = "save_server_settings"
          /\ int(ev'.in.port) = <<"ValueError">>
          /\ ev'.exc = "none" )
        => /\ status' = Error("Invalid server port. Please enter a valid number.")
           /\ cfg' = cfg
           /\ fileData' = fileData
           /\ server' = server
           /\ listening' = listening ]_vars

\* the fields of a save_params event that the claims call invalid: one of
\* the four entries is empty or the port is rejected
FieldsRejected(in) ==
    \/ in.address = "" \/ in.port = "" \/ in.username = "" \/ in.password = ""
    \/ ~is_port_valid(in.port)

\* C18: save_params validates before it changes anything: with an empty
\* address, port, username or password, or a rejected port, an error is shown
\* and the record and the config file stay as they were; otherwise addr,
\* port, user, pass and ssh-agent are updated together and the record is saved
C18_ValidateThenStore ==
    [][ (ev' # ev /\ ev'.op = "save_params")
        => IF FieldsRejected(ev'.in)
           THEN /\ status'[1]
                /\ cfg' = cfg
                /\ fileData' = fileData
                /\ fileExists' = fileExists
           ELSE /\ ~status'[1]
                /\ cfg' = [k \in DOMAIN cfg |->
                             CASE k = "addr" -> PyStr(ev'.in.address)
                               [] k = "port" -> PyStr(ev'.in.port)
                               [] k = "user" -> PyStr(ev'.in.username)
                               [] k = "pass" -> PyStr(ev'.in.password)
                               [] k = "ssh-agent" -> PyInt(ev'.in.ssh_agent)
                               [] OTHER -> cfg[k]]
                /\ fileExists'
                /\ fileData' = json_dump(cfg') ]_vars

\* save_params has stored a valid set of fields that differs from the defaults
C18_Witness ==
    /\ ev.op = "save_params"
    /\ ~FieldsRejected(ev.in)
    /\ cfg["addr"] = PyStr(ev.in.address) /\ cfg["port"] = PyStr(ev.in.port)
    /\ cfg["addr"] # default_cfg["addr"]
    /\ fileData = json_dump(cfg)

\* C19: save_params accepts a port exactly when it is an integer in the range
\* 0-65535 (the other three entries being filled in)
C19_PortRange ==
    ( /\ ev.op = "save_params"
      /\ ev.in.address # "" /\ ev.in.port # ""
      /\ ev.in.username # "" /\ ev.in.password # "" )
    => ( status = Status("Connection parameters updated.")
         <=> ( /\ int(ev.in.port) # <<"ValueError">>
               /\ 0 <= int(ev.in.port)[2] /\ int(ev.in.port)[2] <= 65535 ) )

\* the operations Send starts: the pending callbacks and the generic RPC
SendOps == Callbacks \cup {"generic"}

\* C13: pressing a command button of the left panel makes no connection to
\* the device; every connection attempt belongs to an operation that Send
\* started
C13_OnlySendConnects ==
    attempts > 0 => (viaSend \/ curOp = "generic")

\* C14: what Send hands to the session is the content the text box had when
\* Send was pressed; a pending put-configuration sends that content wrapped
\* in one nc:config element to the datastore chosen when the file was loaded
C14_SendDispatchesTextBox ==
    (rpcCalls > 0 /\ curOp \in SendOps)
    => sent = IF curOp = "execute_put_config"
              THEN <<"edit_config", loadTarget, "nc:config", sendText>>
              ELSE <<"dispatch", "", "", sendText>>

\* a file loaded for the startup datastore and then edited was sent there
C14_Witness ==
    /\ curOp = "execute_put_config"
    /\ rpcCalls = 1
    /\ sendText = "edited_xml"
    /\ sent = <<"edit_config", "startup", "nc:config", "edited_xml">>

\* C15: once Send has run a pending callback and the handler has ended, in
\* whatever way, no RPC callback is pending
C15_SendConsumesPending ==
    (viaSend /\ pc = "idle") => rpc_cb = "None"

\* the user has typed into the text box (no handler of the application runs)
UserEdit == textbox' \in Typed /\ textbox' # textbox

\* C16: while addr, port, user or pass is empty, Send, Get configuration and
\* Save running to startup show 'Connection parameters cannot be empty!',
\* make no connection attempt, and Send leaves the pending callback as it is
C16_NoConnectWithEmptyParameters ==
    [][ ( /\ UiReady
          /\ is_empty_connection_parameters(cfg)
          /\ ~UserEdit
          /\ curOp' \in SendOps \cup {"execute_netconf_command", "get_config_cb",
                                        "copy_config"} )
        => ( /\ pc' = "idle"
             /\ attempts' = 0
             /\ status' = Error("Connection parameters cannot be empty!")
             /\ rpc_cb' = rpc_cb ) ]_vars

\* C17: a generic Send (no pending callback) of text that is not well-formed
\* XML makes no RPC call, shows 'XML Syntax Error', and closes the session it
\* opened
C17_GenericSyntaxError ==
    (curOp = "generic" /\ m # 0 /\ ~WellFormed(sendText) /\ pc \in {"exit", "idle"})
    => /\ rpcCalls = 0
       /\ sent = NoCall
       /\ status = Error("XML Syntax Error")
       /\ pc = "idle" => (closes = 1 /\ closeCalls[m] = 1)

\* the generic Send of malformed text has ended with its session closed
C17_Witness ==
    /\ curOp = "generic"
    /\ sendText = "not_xml"
    /\ pc = "idle"
    /\ m # 0
    /\ closeCalls[m] = 1
    /\ status = Error("XML Syntax Error")

\* the last settings event of the running application is an "Apply & Save"
\* of the web server frame whose port was a number and whose bind, if one
\* was made, the system allowed
ServerSettingsApplied ==
    /\ app = "running"
    /\ ev.op = "save_server_settings"
    /\ int(ev.in.port) # <<"ValueError">>
    /\ ev.exc # "OSError"

\* C21: the file server follows the enabled flag: after application start a
\* server runs exactly when cfg['server_enabled'] is true; after "Apply &
\* Save" with the flag off no server runs and the status says so, and with
\* the flag on one server runs with the newly saved port and directory
C21_ServerFollowsEnabledFlag ==
    /\ (app = "running" /\ ev.op = "none")
          => (server = "serving" <=> Truthy(cfg["server_enabled"]))
    /\ ServerSettingsApplied
          => IF ev.in.enabled = 0
             THEN /\ server # "serving"
                  /\ listening = <<>>
                  /\ status = Status("Web server settings saved, server not running.")
             ELSE /\ server = "serving"
                  /\ Len(listening) = 1
                  /\ listening[1][2] = int(ev.in.port)
                  /\ PyStr(docroot) = cfg["server_path"]

\* C22: save_server_settings with a valid port completes whatever the server
\* state before it (never started, running, stopped) and ends with the
\* 'server restarted' or the 'server not running' status
C22_SaveServerSettingsCompletes ==
    ServerSettingsApplied
    => /\ ev.exc = "none"
       /\ propagated = "none"
       /\ status \in {Status("Web server settings updated and server restarted."),
                       Status("Web server settings saved, server not running.")}

\* the config file holds the text under the key
FileHolds(k, text) ==
    /\ fileExists
    /\ k \in DOMAIN fileData
    /\ fileData[k] = <<"string", text>>

\* C23: after a change of theme, zoom or syntax style through the Settings
\* menu the config file holds the new value as selected
C23_MenuChangesPersisted ==
    /\ ev.op = "change_theme_mode_event" => FileHolds("theme", ev.in)
    /\ ev.op = "change_scaling_event" => FileHolds("zoom", ev.in)
    /\ ev.op = "load_syntax_style" => FileHolds("syntax_style", ev.in)

====
